---- MODULE Spec2Model ----
(***************************************************************************)
(* Model of the HolidayManager request service: the route handlers         *)
(*   POST/GET   /api/user/[userid]   (src/src/app/api/user/[userid]/route.ts)*)
(*   PATCH/DELETE /api/holidays/[id] (src/unnamed/part_000, lines 84-140)   *)
(*   GET        /api/holidays        (src/unnamed/part_002, lines 1-20)     *)
(* over the employee_request and users tables (src/unnamed/part_000,        *)
(* lines 43-69).  Each handler is one atomic action; the outcome of the     *)
(* store (available or throwing) and of the mail transport (delivered or    *)
(* throwing) is chosen nondeterministically per call.                       *)
(***************************************************************************)
EXTENDS Integers, Sequences, FiniteSets, TLC

VARIABLES users, store, nextId, pre, last, inflight, dash

vars == <<users, store, nextId, pre, last, inflight, dash>>

\* what the atomic handlers never touch: the POST call that is between two
\* of its awaits, and the state of a dashboard component
aux == <<inflight, dash>>

(***************************************************************************)
(* Bounds                                                                  *)
(***************************************************************************)
\* number of rows gen_random_uuid() hands an id to in one behaviour
MaxRequests == 2

(***************************************************************************)
(* Values                                                                  *)
(***************************************************************************)
\* a property that is absent from the JSON body (JavaScript undefined)
Undefined == "<undefined>"

\* CREATE TYPE request_status
RequestStatuses == {"accepted", "denied", "pending"}

\* CREATE TYPE request_type
RequestTypes == {"work_from_home", "holiday", "halfday", "other"}

\* the users table after construction, and an id that is in no users row
InitialUsers == {"u1"}
UserIds == InitialUsers \cup {"u9"}

\* ids handed out by gen_random_uuid(), in order of generation
Ids == 1..MaxRequests

\* calendar dates in ISO form, in calendar order
DateStrings == <<"2024-06-05", "2024-06-10">>

RequiredFields == {"name", "email", "reason", "startDate", "endDate", "type"}

StatusInputs == {Undefined, "", "accepted", "denied", "pending", "cancelled"}

\* JavaScript !v for v a string or undefined
Falsy(v) == v = Undefined \/ v = ""

\* bodies that carry every required property
CompleteBodies ==
    [name : {"Ann"}, email : {"ann@corp"}, type : {"holiday"},
     reason : {"sick"},
     startDate : {DateStrings[i] : i \in 1..Len(DateStrings)},
     endDate : {DateStrings[i] : i \in 1..Len(DateStrings)},
     status : {Undefined, "accepted"}]

\* the empty JSON object
EmptyBody ==
    [name |-> Undefined, email |-> Undefined, type |-> Undefined,
     reason |-> Undefined, startDate |-> Undefined, endDate |-> Undefined,
     status |-> Undefined]

\* the request bodies a caller sends to POST /api/user/[userid]: complete
\* ones, ones with one required property absent or empty, and {}
Bodies ==
    CompleteBodies
    \cup {[b EXCEPT ![f] = v] :
            b \in CompleteBodies, f \in RequiredFields, v \in {Undefined, ""}}
    \cup {EmptyBody}

\* the request body of PATCH /api/holidays/[id]: only status is read
StatusBody(s) ==
    [name |-> Undefined, email |-> Undefined, type |-> Undefined,
     reason |-> Undefined, startDate |-> Undefined, endDate |-> Undefined,
     status |-> s]

NoBody == StatusBody(Undefined)

\* no POST call is between two of its awaits
NoCall ==
    [stage |-> "idle", userid |-> "", body |-> NoBody, newRequest |-> <<>>,
     mails |-> 0, mail |-> "none"]

(***************************************************************************)
(* Dates                                                                   *)
(***************************************************************************)
\* the value of an invalid Date; every ordered comparison with it is false
NaN == -1

\* new Date(s) for an ISO date string, in whole days since the epoch
\* (getTime() / 86400000; a date-only string parses to UTC midnight)
ParseDate(s) ==
    CASE s = "1970-01-01" -> 0
      [] s = "2024-06-05" -> 19879
      [] s = "2024-06-10" -> 19884
      [] s = "2024-06-12" -> 19886
      [] OTHER -> NaN

\* what the text is not a date to the store
NotADate == "<not a date>"

\* input conversion of a date column: ISO dates are stored as they are, the
\* special input 'epoch' is stored as 1970-01-01, other text is refused
DateColumnIn(s) ==
    CASE ParseDate(s) # NaN -> s
      [] s = "epoch" -> "1970-01-01"
      [] OTHER -> NotADate

\* a < b on two Date objects
DateLess(a, b) == a # NaN /\ b # NaN /\ a < b

\* a <= b on two Date objects
DateLeq(a, b) == a # NaN /\ b # NaN /\ a <= b

\* a >= b on two Date objects
DateGeq(a, b) == a # NaN /\ b # NaN /\ a >= b

(***************************************************************************)
(* Responses                                                               *)
(***************************************************************************)
\* NextResponse.json({ error }, { status })
JsonError(msg, code) ==
    [code |-> code, kind |-> "error", error |-> msg, message |-> "", rows |-> <<>>]

\* NextResponse.json(row, { status })
JsonRow(row, code) ==
    [code |-> code, kind |-> "row", error |-> "", message |-> "", rows |-> <<row>>]

\* NextResponse.json(rows)
JsonList(rows) ==
    [code |-> 200, kind |-> "list", error |-> "", message |-> "", rows |-> rows]

\* NextResponse.json({ message, id })
JsonMessage(msg) ==
    [code |-> 200, kind |-> "message", error |-> "", message |-> msg, rows |-> <<>>]

\* a 200 response whose body is the serialisation of undefined
JsonEmpty ==
    [code |-> 200, kind |-> "empty", error |-> "", message |-> "", rows |-> <<>>]

\* response.ok as the dashboards test it
Ok(resp) == resp.code \in 200..299

Call(op, u, id, body, db, mail, resp) ==
    [op |-> op, userid |-> u, id |-> id, body |-> body, db |-> db,
     mail |-> mail, resp |-> resp]

(***************************************************************************)
(* POST /api/user/[userid]                                                 *)
(***************************************************************************)
\* MissingField without the !type test
MissingFieldNoType(b) ==
    \/ Falsy(b.name)
    \/ Falsy(b.email)
    \/ Falsy(b.reason)
    \/ Falsy(b.startDate)
    \/ Falsy(b.endDate)

MissingField(b) ==
    \/ Falsy(b.name)
    \/ Falsy(b.email)
    \/ Falsy(b.reason)
    \/ Falsy(b.startDate)
    \/ Falsy(b.endDate)
    \/ Falsy(b.type)

\* EndBeforeStart with end <= start in place of end < start
EndNotAfterStart(b) ==
    LET start == ParseDate(b.startDate)
        end == ParseDate(b.endDate)
    IN  start # NaN /\ end # NaN /\ end <= start

EndBeforeStart(b) == DateLess(ParseDate(b.endDate), ParseDate(b.startDate))

\* UserExists without the lookup
UserExistsAlways(us, u) == TRUE

UserExists(us, u) == u \in us

\* NewRow taking the status from the body when the body has one
NewRowStatusFromBody(id, u, b) ==
    [id |-> id, userid |-> u, name |-> b.name, email |-> b.email,
     type |-> b.type, reason |-> b.reason,
     startDate |-> DateColumnIn(b.startDate),
     endDate |-> DateColumnIn(b.endDate),
     status |-> IF Falsy(b.status) THEN "pending" ELSE b.status]

NewRow(id, u, b) ==
    [id |-> id, userid |-> u, name |-> b.name, email |-> b.email,
     type |-> b.type, reason |-> b.reason,
     startDate |-> DateColumnIn(b.startDate),
     endDate |-> DateColumnIn(b.endDate), status |-> "pending"]

\* the insert statement is refused: a value is not of its column's type
InsertRefused(b) ==
    DateColumnIn(b.startDate) = NotADate \/ DateColumnIn(b.endDate) = NotADate

\* PostCreatedReply without the inner try/catch around the notification
PostCreatedReplyMailFatal(row, mailOk) ==
    IF mailOk THEN JsonRow(row, 201)
    ELSE JsonError("Failed to create request", 500)

\* the response after the insert and the notification attempt
PostCreatedReply(row, mailOk) == JsonRow(row, 201)

POST(u, body, dbOk, mailOk) ==
    /\ nextId <= MaxRequests
    /\ pre' = store
    /\ users' = users
    /\ IF MissingField(body)
       THEN /\ last' = Call("POST", u, 0, body, "unused", "none",
                            JsonError("All fields are required", 400))
            /\ UNCHANGED <<store, nextId>>
       ELSE IF EndBeforeStart(body)
       THEN /\ last' = Call("POST", u, 0, body, "unused", "none",
                            JsonError("End date must be after start date", 400))
            /\ UNCHANGED <<store, nextId>>
       ELSE IF ~dbOk
       THEN /\ last' = Call("POST", u, 0, body, "down", "none",
                            JsonError("Failed to create request", 500))
            /\ UNCHANGED <<store, nextId>>
       ELSE IF ~UserExists(users, u)
       THEN /\ last' = Call("POST", u, 0, body, "ok", "none",
                            JsonError("User does not exist", 400))
            /\ UNCHANGED <<store, nextId>>
       ELSE IF InsertRefused(body)
       THEN /\ last' = Call("POST", u, 0, body, "refused", "none",
                            JsonError("Failed to create request", 500))
            /\ UNCHANGED <<store, nextId>>
       ELSE LET row == NewRow(nextId, u, body) IN
            /\ store' = (nextId :> row) @@ store
            /\ nextId' = nextId + 1
            /\ last' = Call("POST", u, 0, body, "ok",
                            IF mailOk THEN "sent" ELSE "failed",
                            PostCreatedReply(row, mailOk))

(***************************************************************************)
(* POST /api/user/[userid] step by step: the handler awaits the user       *)
(* lookup and then the insert, and other work runs between the two         *)
(***************************************************************************)
\* ForeignKeyHolds without the constraint on employee_request.user_id
ForeignKeyUnchecked(us, u) == TRUE

\* the constraint employee_request_user_id_users_id_fk, tested by the store
\* when the row is inserted
ForeignKeyHolds(us, u) == u \in us

\* first half: validation and the awaited select on users
POST_select(u, body, dbOk) ==
    /\ inflight.stage = "idle"
    /\ nextId <= MaxRequests
    /\ UNCHANGED <<users, store, nextId, dash>>
    /\ IF MissingField(body)
       THEN /\ last' = Call("POST", u, 0, body, "unused", "none",
                            JsonError("All fields are required", 400))
            /\ pre' = store
            /\ inflight' = [NoCall EXCEPT !.userid = u, !.body = body]
       ELSE IF EndBeforeStart(body)
       THEN /\ last' = Call("POST", u, 0, body, "unused", "none",
                            JsonError("End date must be after start date", 400))
            /\ pre' = store
            /\ inflight' = [NoCall EXCEPT !.userid = u, !.body = body]
       ELSE IF ~dbOk
       THEN /\ last' = Call("POST", u, 0, body, "down", "none",
                            JsonError("Failed to create request", 500))
            /\ pre' = store
            /\ inflight' = [NoCall EXCEPT !.userid = u, !.body = body]
       ELSE IF ~UserExists(users, u)
       THEN /\ last' = Call("POST", u, 0, body, "ok", "none",
                            JsonError("User does not exist", 400))
            /\ pre' = store
            /\ inflight' = [NoCall EXCEPT !.userid = u, !.body = body]
       ELSE /\ inflight' = [stage |-> "selected", userid |-> u, body |-> body,
                             newRequest |-> <<>>, mails |-> 0, mail |-> "none"]
            /\ UNCHANGED <<pre, last>>

\* the awaited insert: .returning() hands back the inserted row; the call
\* has no response yet, and last records the statement that ran
POST_insert(dbOk) ==
    /\ inflight.stage = "selected"
    /\ pre' = store
    /\ UNCHANGED <<users, dash>>
    /\ LET u == inflight.userid
           body == inflight.body IN
       IF ~dbOk
       THEN /\ last' = Call("POST", u, 0, body, "down", "none",
                            JsonError("Failed to create request", 500))
            /\ inflight' = [inflight EXCEPT !.stage = "idle"]
            /\ UNCHANGED <<store, nextId>>
       ELSE IF ~ForeignKeyHolds(users, u) \/ InsertRefused(body)
       THEN /\ last' = Call("POST", u, 0, body, "refused", "none",
                            JsonError("Failed to create request", 500))
            /\ inflight' = [inflight EXCEPT !.stage = "idle"]
            /\ UNCHANGED <<store, nextId>>
       ELSE LET row == NewRow(nextId, u, body) IN
            /\ store' = (nextId :> row) @@ store
            /\ nextId' = nextId + 1
            /\ inflight' = [inflight EXCEPT !.stage = "inserted",
                                            !.newRequest = <<row>>]
            /\ last' = Call("POST_insert", u, 0, body, "ok", "none", JsonEmpty)

\* MayNotify for a call that has not inserted yet
MayNotifyEarly(call) == call.stage \in {"selected", "inserted"}

\* the statement that awaits sendRequestEmail is reached after the insert
MayNotify(call) == call.stage = "inserted"

\* the awaited sendRequestEmail inside the inner try/catch
POST_notify(mailOk) ==
    /\ MayNotify(inflight)
    /\ inflight' = [inflight EXCEPT !.stage = "notified",
                                    !.mails = @ + 1,
                                    !.mail = IF mailOk THEN "sent" ELSE "failed"]
    /\ UNCHANGED <<users, store, nextId, pre, last, dash>>

\* return NextResponse.json(newRequest[0], { status: 201 })
POST_respond ==
    /\ inflight.stage = "notified"
    /\ last' = Call("POST", inflight.userid, 0, inflight.body, "ok",
                    inflight.mail,
                    PostCreatedReply(inflight.newRequest[1], inflight.mail = "sent"))
    /\ inflight' = [inflight EXCEPT !.stage = "idle"]
    /\ UNCHANGED <<users, store, nextId, pre, dash>>

(***************************************************************************)
(* GET /api/user/[userid] and GET /api/holidays                            *)
(***************************************************************************)
RowsOf(st) == {st[i] : i \in DOMAIN st}

\* every sequence that lists each row of S exactly once
Orderings(S) ==
    {f \in [1..Cardinality(S) -> S] :
        \A i, j \in 1..Cardinality(S) : i # j => f[i] # f[j]}

\* SortedByStartDesc with the order turned round
SortedByStartAsc(rows) ==
    \A i \in 1..(Len(rows) - 1) :
        ParseDate(rows[i].startDate) <= ParseDate(rows[i + 1].startDate)

\* ORDER BY start_date DESC on a date column
SortedByStartDesc(rows) ==
    \A i \in 1..(Len(rows) - 1) :
        ParseDate(rows[i].startDate) >= ParseDate(rows[i + 1].startDate)

\* the results the store may give for .orderBy(desc(startDate)): rows with
\* equal start dates come in an order the query does not fix
SelectOrdered(S) == {rows \in Orderings(S) : SortedByStartDesc(rows)}

\* OwnedBy without the where clause
OwnedByAnyone(st, u) == RowsOf(st)

\* .where(eq(employeeRequest.userid, userid))
OwnedBy(st, u) == {r \in RowsOf(st) : r.userid = u}

GET_user(u, dbOk) ==
    /\ pre' = store
    /\ UNCHANGED <<users, store, nextId>>
    /\ IF ~dbOk
       THEN last' = Call("GET_user", u, 0, NoBody, "down", "none",
                         JsonError("Failed to fetch requests", 500))
       ELSE \E rows \in SelectOrdered(OwnedBy(store, u)) :
                last' = Call("GET_user", u, 0, NoBody, "ok", "none",
                             JsonList(rows))

GET_all(dbOk) ==
    /\ pre' = store
    /\ UNCHANGED <<users, store, nextId>>
    /\ IF ~dbOk
       THEN last' = Call("GET_all", "", 0, NoBody, "down", "none",
                         JsonError("Failed to fetch requests", 200))
       ELSE \E rows \in SelectOrdered(RowsOf(store)) :
                last' = Call("GET_all", "", 0, NoBody, "ok", "none",
                             JsonList(rows))

(***************************************************************************)
(* PATCH /api/holidays/[id] and DELETE /api/holidays/[id]                  *)
(***************************************************************************)
\* !status || !['accepted', 'denied', 'pending'].includes(status)
InvalidStatus(s) == Falsy(s) \/ s \notin {"accepted", "denied", "pending"}

\* ApplyUpdate with a guard that only lets pending rows change
ApplyUpdatePendingOnly(st, id, s) ==
    [i \in DOMAIN st |->
        IF i = id /\ st[i].status = "pending"
        THEN [st[i] EXCEPT !.status = s] ELSE st[i]]

\* ApplyUpdate without the WHERE clause
ApplyUpdateAll(st, id, s) ==
    [i \in DOMAIN st |-> [st[i] EXCEPT !.status = s]]

\* UPDATE employee_request SET status = s WHERE id = id
ApplyUpdate(st, id, s) ==
    [i \in DOMAIN st |-> IF i = id THEN [st[i] EXCEPT !.status = s] ELSE st[i]]

\* NextResponse.json(updatedRequest[0]): the first updated row, or, when no
\* row matched, undefined, which either serialises to an empty 200 body or
\* makes Response.json throw into the handler's catch block
UpdateReplies(st, id) ==
    IF id \in DOMAIN st
    THEN {JsonRow(st[id], 200)}
    ELSE {JsonEmpty, JsonError("Failed to update request", 200)}

PATCH(id, body, dbOk) ==
    /\ pre' = store
    /\ UNCHANGED <<users, nextId>>
    /\ IF InvalidStatus(body.status)
       THEN /\ last' = Call("PATCH", "", id, body, "unused", "none",
                   JsonError("Invalid status. Must be 'accepted', 'denied', or 'pending'", 200))
            /\ store' = store
       ELSE IF ~dbOk
       THEN /\ last' = Call("PATCH", "", id, body, "down", "none",
                            JsonError("Failed to update request", 200))
            /\ store' = store
       ELSE /\ store' = ApplyUpdate(store, id, body.status)
            /\ \E resp \in UpdateReplies(store', id) :
                   last' = Call("PATCH", "", id, body, "ok", "none", resp)

\* ApplyDelete that keeps the row (a delete that only marks it)
ApplyDeleteKeepsRow(st, id) == st

\* DELETE FROM employee_request WHERE id = id
ApplyDelete(st, id) == [i \in DOMAIN st \ {id} |-> st[i]]

\* the response after the delete statement returned its rows
DeleteReply(deleted) == JsonMessage("Request deleted successfully")

DELETE(id, dbOk) ==
    /\ pre' = store
    /\ UNCHANGED <<users, nextId>>
    /\ IF ~dbOk
       THEN /\ last' = Call("DELETE", "", id, NoBody, "down", "none",
                            JsonError("Failed to delete request", 200))
            /\ store' = store
       ELSE /\ store' = ApplyDelete(store, id)
            /\ last' = Call("DELETE", "", id, NoBody, "ok", "none",
                            DeleteReply({r \in RowsOf(store) : r.id = id}))

(***************************************************************************)
(* users row removal: FOREIGN KEY (user_id) ... ON DELETE cascade          *)
(***************************************************************************)
CascadeDelete(st, u) ==
    [i \in {j \in DOMAIN st : st[j].userid # u} |-> st[i]]

RemoveUser(u) ==
    /\ u \in users
    /\ pre' = store
    /\ users' = users \ {u}
    /\ store' = CascadeDelete(store, u)
    /\ nextId' = nextId
    /\ last' = Call("RemoveUser", u, 0, NoBody, "ok", "none", JsonEmpty)

(***************************************************************************)
(* User dashboard: validateForm                                            *)
(***************************************************************************)
\* String.prototype.trim() on the strings of this model, of which " " is
\* the only one with leading or trailing white space
Trim(s) == IF s = " " THEN "" ELSE s

\* the formData a request body was built from
FormOf(b) ==
    [type |-> b.type, reason |-> b.reason, startDate |-> b.startDate,
     endDate |-> b.endDate]

validateForm(formData) ==
    IF Falsy(formData.type) THEN FALSE
    ELSE IF Falsy(Trim(formData.reason)) THEN FALSE
    ELSE IF Falsy(formData.startDate) \/ Falsy(formData.endDate) THEN FALSE
    ELSE IF DateLess(ParseDate(formData.endDate), ParseDate(formData.startDate))
    THEN FALSE
    ELSE TRUE

(***************************************************************************)
(* Dashboards: strings                                                     *)
(***************************************************************************)
getTypeLabel(type) ==
    CASE type = "work_from_home" -> "Work from Home"
      [] type = "holiday" -> "Holiday"
      [] type = "halfday" -> "Half Day"
      [] type = "other" -> "Other"

\* the characters of the strings of this model
Chars(s) ==
    CASE s = "" -> <<>>
      [] s = " " -> <<" ">>
      [] s = "AN" -> <<"A", "N">>
      [] s = "HOL" -> <<"H", "O", "L">>
      [] s = "tri" -> <<"t", "r", "i">>
      [] s = "Bob" -> <<"B", "o", "b">>
      [] s = "bob@corp" -> <<"b", "o", "b", "@", "c", "o", "r", "p">>
      [] s = "Trip" -> <<"T", "r", "i", "p">>
      [] s = "Ann" -> <<"A", "n", "n">>
      [] s = "ann@corp" -> <<"a", "n", "n", "@", "c", "o", "r", "p">>
      [] s = "sick" -> <<"s", "i", "c", "k">>
      [] s = "Work from Home" ->
            <<"W", "o", "r", "k", " ", "f", "r", "o", "m", " ", "H", "o", "m", "e">>
      [] s = "Holiday" -> <<"H", "o", "l", "i", "d", "a", "y">>
      [] s = "Half Day" -> <<"H", "a", "l", "f", " ", "D", "a", "y">>
      [] s = "Other" -> <<"O", "t", "h", "e", "r">>

\* String.prototype.toLowerCase() on one character
LowerChar(c) ==
    CASE c = "A" -> "a"
      [] c = "B" -> "b"
      [] c = "L" -> "l"
      [] c = "T" -> "t"
      [] c = "D" -> "d"
      [] c = "H" -> "h"
      [] c = "N" -> "n"
      [] c = "O" -> "o"
      [] c = "W" -> "w"
      [] OTHER -> c

toLowerCase(s) == [i \in DOMAIN Chars(s) |-> LowerChar(Chars(s)[i])]

\* String.prototype.includes() on two sequences of characters
includes(hay, needle) ==
    \E k \in 0..(Len(hay) - Len(needle)) :
        \A i \in 1..Len(needle) : hay[k + i] = needle[i]

(***************************************************************************)
(* Dashboards: the filter effects                                          *)
(***************************************************************************)
\* ArrayFilter with the kept elements in the opposite order
ArrayFilterReversed(arr, kept) ==
    LET Test(r) == r \in kept
        out == SelectSeq(arr, Test) IN
    [i \in 1..Len(out) |-> out[Len(out) + 1 - i]]

\* Array.prototype.filter, kept being the elements that pass the callback
ArrayFilter(arr, kept) ==
    LET Test(r) == r \in kept IN SelectSeq(arr, Test)

Elements(arr) == {arr[i] : i \in 1..Len(arr)}

\* the three filters the dashboards share
ByStatus(arr, f) ==
    IF f.status # "all"
    THEN ArrayFilter(arr, {r \in Elements(arr) : r.status = f.status})
    ELSE arr

ByType(arr, f) ==
    IF f.type # "all"
    THEN ArrayFilter(arr, {r \in Elements(arr) : r.type = f.type})
    ELSE arr

\* user dashboard: search over the reason and the type label
UserSearchKeeps(r, search) ==
    \/ includes(toLowerCase(r.reason), toLowerCase(search))
    \/ includes(toLowerCase(getTypeLabel(r.type)), toLowerCase(search))

\* UserFromKeeps testing the end of the request
UserFromKeepsByEnd(r, dateFrom) ==
    DateGeq(ParseDate(r.endDate), ParseDate(dateFrom))

UserFromKeeps(r, dateFrom) ==
    DateGeq(ParseDate(r.startDate), ParseDate(dateFrom))

\* UserToKeeps ignoring the end of the window
UserToKeepsAll(r, dateTo) == TRUE

UserToKeeps(r, dateTo) ==
    DateLeq(ParseDate(r.endDate), ParseDate(dateTo))

\* user dashboard: the filter effect
UserFilter(requests, f) ==
    LET f1 == ByStatus(requests, f)
        f2 == ByType(f1, f)
        f3 == IF ~Falsy(f.search)
              THEN ArrayFilter(f2, {r \in Elements(f2) : UserSearchKeeps(r, f.search)})
              ELSE f2
        f4 == IF ~Falsy(f.dateFrom)
              THEN ArrayFilter(f3, {r \in Elements(f3) : UserFromKeeps(r, f.dateFrom)})
              ELSE f3
        f5 == IF ~Falsy(f.dateTo)
              THEN ArrayFilter(f4, {r \in Elements(f4) : UserToKeeps(r, f.dateTo)})
              ELSE f4
    IN f5

\* AdminRequestsPage: search over name, email, reason and the type label
AdminSearchKeeps(r, search) ==
    \/ includes(toLowerCase(r.name), toLowerCase(search))
    \/ includes(toLowerCase(r.email), toLowerCase(search))
    \/ includes(toLowerCase(r.reason), toLowerCase(search))
    \/ includes(toLowerCase(getTypeLabel(r.type)), toLowerCase(search))

\* AdminDateKeeps keeping the requests the window contains
AdminDateKeepsContained(r, f) ==
    LET requestStart == ParseDate(r.startDate)
        requestEnd == ParseDate(r.endDate) IN
    IF ~Falsy(f.dateFrom) /\ Falsy(f.dateTo)
    THEN DateGeq(requestStart, ParseDate(f.dateFrom))
    ELSE IF Falsy(f.dateFrom) /\ ~Falsy(f.dateTo)
    THEN DateLeq(requestEnd, ParseDate(f.dateTo))
    ELSE IF ~Falsy(f.dateFrom) /\ ~Falsy(f.dateTo)
    THEN /\ DateGeq(requestStart, ParseDate(f.dateFrom))
         /\ DateLeq(requestEnd, ParseDate(f.dateTo))
    ELSE TRUE

\* AdminRequestsPage: the callback of the date range filter
AdminDateKeeps(r, f) ==
    LET requestStart == ParseDate(r.startDate)
        requestEnd == ParseDate(r.endDate) IN
    IF ~Falsy(f.dateFrom) /\ Falsy(f.dateTo)
    THEN DateGeq(requestEnd, ParseDate(f.dateFrom))
    ELSE IF Falsy(f.dateFrom) /\ ~Falsy(f.dateTo)
    THEN DateLeq(requestStart, ParseDate(f.dateTo))
    ELSE IF ~Falsy(f.dateFrom) /\ ~Falsy(f.dateTo)
    THEN /\ DateLeq(requestStart, ParseDate(f.dateTo))
         /\ DateGeq(requestEnd, ParseDate(f.dateFrom))
    ELSE TRUE

\* AdminRequestsPage: the filter effect
AdminFilter(requests, f) ==
    LET f1 == ByStatus(requests, f)
        f2 == ByType(f1, f)
        f3 == IF ~Falsy(f.search)
              THEN ArrayFilter(f2, {r \in Elements(f2) : AdminSearchKeeps(r, f.search)})
              ELSE f2
        f4 == IF ~Falsy(f.dateFrom) \/ ~Falsy(f.dateTo)
              THEN ArrayFilter(f3, {r \in Elements(f3) : AdminDateKeeps(r, f)})
              ELSE f3
    IN f4

\* EmployeeRequestsPage: search over name, email and reason
EmployeeSearchKeeps(r, searchQuery) ==
    \/ includes(toLowerCase(r.name), toLowerCase(searchQuery))
    \/ includes(toLowerCase(r.email), toLowerCase(searchQuery))
    \/ includes(toLowerCase(r.reason), toLowerCase(searchQuery))

\* EmployeeRequestsPage: the filter effect, its state being searchQuery,
\* statusFilter, typeFilter, fromDate and toDate
EmployeeFilter(requestData, f) ==
    LET f1 == IF Trim(f.search) # ""
              THEN ArrayFilter(requestData,
                       {r \in Elements(requestData) : EmployeeSearchKeeps(r, f.search)})
              ELSE requestData
        f2 == ByStatus(f1, f)
        f3 == ByType(f2, f)
        f4 == IF ~Falsy(f.dateFrom) /\ ~Falsy(f.dateTo)
              THEN ArrayFilter(f3, {r \in Elements(f3) :
                       /\ DateLeq(ParseDate(r.startDate), ParseDate(f.dateTo))
                       /\ DateGeq(ParseDate(r.endDate), ParseDate(f.dateFrom))})
              ELSE IF ~Falsy(f.dateFrom)
              THEN ArrayFilter(f3, {r \in Elements(f3) :
                       DateGeq(ParseDate(r.endDate), ParseDate(f.dateFrom))})
              ELSE IF ~Falsy(f.dateTo)
              THEN ArrayFilter(f3, {r \in Elements(f3) :
                       DateLeq(ParseDate(r.startDate), ParseDate(f.dateTo))})
              ELSE f3
    IN f4

\* the filter effect of the mounted dashboard
FilterEffect(view, filter) ==
    /\ dash.view = view
    /\ dash.effect = "pending"
    /\ dash' = [dash EXCEPT !.filteredRequests = filter, !.effect = "done"]
    /\ UNCHANGED <<users, store, nextId, pre, last, inflight>>

\* handleFilterChange, and the setters of EmployeeRequestsPage
handleFilterChange(key, value) ==
    /\ dash.view # "none"
    /\ dash' = [dash EXCEPT !.filters[key] = value, !.effect = "pending"]
    /\ UNCHANGED <<users, store, nextId, pre, last, inflight>>

\* the Clear Filters button of the two dashboards that have one
clearFilters ==
    /\ dash.view \in {"user", "admin"}
    /\ dash' = [dash EXCEPT !.filters =
                    [status |-> "all", type |-> "all", search |-> "",
                     dateFrom |-> "", dateTo |-> ""],
                 !.effect = "pending"]
    /\ UNCHANGED <<users, store, nextId, pre, last, inflight>>

(***************************************************************************)
(* Dashboards: calculateDays and the statistics                            *)
(***************************************************************************)
MsPerDay == 1000 * 60 * 60 * 24

\* Math.abs on a number
Abs(x) == IF x = NaN THEN NaN ELSE IF x < 0 THEN 0 - x ELSE x

\* end.getTime() - start.getTime(): ParseDate counts whole days since the
\* epoch and getTime() milliseconds, so the difference is the difference of
\* the days times MsPerDay
TimeDifference(end, start) ==
    IF end = NaN \/ start = NaN THEN NaN ELSE (end - start) * MsPerDay

\* Math.ceil(a / b) for a >= 0 and b > 0
CeilOfQuotient(a, b) == IF a = NaN THEN NaN ELSE (a + b - 1) \div b

\* a + b on numbers
Plus(a, b) == IF a = NaN \/ b = NaN THEN NaN ELSE a + b

\* calculateDaysUser without the day that is added at the end
calculateDaysExclusive(startDate, endDate) ==
    LET start == ParseDate(startDate)
        end == ParseDate(endDate)
        diffTime == Abs(TimeDifference(end, start))
    IN CeilOfQuotient(diffTime, MsPerDay)

\* calculateDays of the user dashboard
calculateDaysUser(startDate, endDate) ==
    LET start == ParseDate(startDate)
        end == ParseDate(endDate)
        diffTime == Abs(TimeDifference(end, start))
        diffDays == Plus(CeilOfQuotient(diffTime, MsPerDay), 1)
    IN diffDays

\* calculateDays of AdminRequestsPage
calculateDaysAdmin(startDate, endDate) ==
    LET start == ParseDate(startDate)
        end == ParseDate(endDate)
        diffTime == Abs(TimeDifference(end, start))
        diffDays == Plus(CeilOfQuotient(diffTime, MsPerDay), 1)
    IN diffDays

\* calculateDays of EmployeeRequestsPage
calculateDaysEmployee(startDate, endDate) ==
    LET start == ParseDate(startDate)
        end == ParseDate(endDate)
        diffTime == Abs(TimeDifference(end, start))
        diffDays == Plus(CeilOfQuotient(diffTime, MsPerDay), 1)
    IN diffDays

\* calculateDays as the dashboard view has it
calculateDays(view, startDate, endDate) ==
    CASE view = "user" -> calculateDaysUser(startDate, endDate)
      [] view = "admin" -> calculateDaysAdmin(startDate, endDate)
      [] view = "employee" -> calculateDaysEmployee(startDate, endDate)

\* the days of each request of arr, in the order of arr
DaysOf(view, arr) ==
    [i \in 1..Len(arr) |-> calculateDays(view, arr[i].startDate, arr[i].endDate)]

\* reduce((total, n) => total + n, 0)
RECURSIVE Total(_)
Total(numbers) ==
    IF numbers = <<>> THEN 0
    ELSE Plus(Total(SubSeq(numbers, 1, Len(numbers) - 1)), numbers[Len(numbers)])

\* arr.filter(r => r.status === status)
WithStatus(arr, status) ==
    ArrayFilter(arr, {r \in Elements(arr) : r.status = status})

\* Statistics summing the days of the accepted requests of the snapshot
StatisticsOfSnapshot(view, requests, filteredRequests) ==
    [totalRequests |-> Len(requests),
     pendingCount |-> Len(WithStatus(requests, "pending")),
     acceptedCount |-> Len(WithStatus(requests, "accepted")),
     deniedCount |-> Len(WithStatus(requests, "denied")),
     approvedDays |-> Total(DaysOf(view, WithStatus(requests, "accepted")))]

\* the statistics of the user dashboard and of AdminRequestsPage
Statistics(view, requests, filteredRequests) ==
    [totalRequests |-> Len(requests),
     pendingCount |-> Len(WithStatus(requests, "pending")),
     acceptedCount |-> Len(WithStatus(requests, "accepted")),
     deniedCount |-> Len(WithStatus(requests, "denied")),
     approvedDays |-> Total(DaysOf(view, WithStatus(filteredRequests, "accepted")))]

\* the statistics of EmployeeRequestsPage
EmployeeStatistics(requestData, filterData) ==
    [totalRequests |-> Len(requestData),
     pendingCount |-> Len(WithStatus(requestData, "pending")),
     acceptedCount |-> Len(WithStatus(requestData, "accepted")),
     deniedCount |-> Len(WithStatus(requestData, "denied")),
     filteredDuration |-> Total(DaysOf("employee", filterData)),
     totalDuration |-> Total(DaysOf("employee", requestData))]

\* what a render puts on the screen: the rows of the filtered list, the days
\* shown with each row, and the statistics
Screen(view, requests, filteredRequests) ==
    [list |-> filteredRequests,
     days |-> DaysOf(view, filteredRequests),
     stats |-> IF view = "employee"
               THEN EmployeeStatistics(requests, filteredRequests)
               ELSE Statistics(view, requests, filteredRequests)]

\* nothing has been rendered
NoScreen ==
    [list |-> <<>>, days |-> <<>>,
     stats |-> [totalRequests |-> 0, pendingCount |-> 0, acceptedCount |-> 0,
                deniedCount |-> 0]]

(***************************************************************************)
(* Dashboards: state changes, renders and effects in the order React runs  *)
(* them: a state change schedules a render, the render is committed, and   *)
(* then the effects whose dependencies changed run                         *)
(***************************************************************************)
\* the component function runs on the current state and the screen shows it
Render ==
    /\ dash.view # "none"
    /\ ~dash.painted
    /\ dash' = [dash EXCEPT !.screen = Screen(dash.view, dash.requests,
                                              dash.filteredRequests),
                            !.painted = TRUE]
    /\ UNCHANGED <<users, store, nextId, pre, last, inflight>>

\* the filter effect, run after the render that its dependencies changed in
EffectAfterRender(view, filter) ==
    /\ dash.view = view
    /\ dash.painted
    /\ dash.effect = "pending"
    /\ dash' = [dash EXCEPT !.filteredRequests = filter, !.effect = "done",
                            !.painted = FALSE]
    /\ UNCHANGED <<users, store, nextId, pre, last, inflight>>

\* handleFilterChange on a dashboard whose effects have run
ChangeFilterRendered(key, value) ==
    /\ dash.view # "none"
    /\ dash.painted
    /\ dash.effect = "done"
    /\ dash' = [dash EXCEPT !.filters[key] = value, !.effect = "pending",
                            !.painted = FALSE]
    /\ UNCHANGED <<users, store, nextId, pre, last, inflight>>

\* fetchRequests after its awaits, the response being ok: setRequests(data)
\* and setFilteredRequests(data); fetchData of EmployeeRequestsPage sets
\* requestData only
fetchRequestsDone(data) ==
    /\ dash.view # "none"
    /\ dash.painted
    /\ dash.effect = "done"
    /\ dash' = [dash EXCEPT !.requests = data,
                            !.filteredRequests =
                                IF dash.view = "employee" THEN @ ELSE data,
                            !.effect = "pending",
                            !.painted = FALSE]
    /\ UNCHANGED <<users, store, nextId, pre, last, inflight>>

(***************************************************************************)
(* Administrative dashboards as sessions on the store                      *)
(***************************************************************************)
\* OfferedIfPending offering the buttons with every listed request
OfferedAlways(requests, id) ==
    \E k \in 1..Len(requests) : requests[k].id = id

\* the Accept and Deny buttons are rendered with a listed request:
\* request.status === 'pending' && ( ... )
OfferedIfPending(requests, id) ==
    \E k \in 1..Len(requests) :
        requests[k].id = id /\ requests[k].status = "pending"

\* the second argument of the two onClick handlers
ButtonStatuses == {"accepted", "denied"}

\* the status the session shows for the request
ShownStatus(requests, id) ==
    LET k == CHOOSE i \in 1..Len(requests) : requests[i].id = id
    IN requests[k].status

\* no button has been clicked
NoClick == [session |-> "", id |-> 0, status |-> "", shown |-> ""]

\* fetchRequests / fetchData with the store available: GET /api/holidays,
\* then setRequests(data)
fetchRequests(s) ==
    /\ dash.sessions[s].fetching
    /\ GET_all(TRUE)
    /\ dash' = [dash EXCEPT !.sessions[s].requests =
                                IF Ok(last'.resp) THEN last'.resp.rows ELSE @,
                            !.sessions[s].fetching = FALSE]
    /\ UNCHANGED inflight

\* updateRequestStatus from a click on Accept or Deny: PATCH, and a new
\* fetch when response.ok
updateRequestStatus(s, id, newStatus, dbOk) ==
    /\ OfferedIfPending(dash.sessions[s].requests, id)
    /\ PATCH(id, StatusBody(newStatus), dbOk)
    /\ dash' = [dash EXCEPT !.sessions[s].fetching =
                                IF Ok(last'.resp) THEN TRUE ELSE @,
                            !.clicked =
                                [session |-> s, id |-> id, status |-> newStatus,
                                 shown |-> ShownStatus(dash.sessions[s].requests, id)]]
    /\ UNCHANGED inflight

\* the page is loaded again: the state is the initial one and the mount
\* effect fetches
Remount(s) ==
    /\ dash.sessions[s].requests # <<>>
    /\ ~dash.sessions[s].fetching
    /\ dash' = [dash EXCEPT !.sessions[s].requests = <<>>,
                            !.sessions[s].fetching = TRUE]
    /\ UNCHANGED <<users, store, nextId, pre, last, inflight>>

(***************************************************************************)
(* The user page with the Cancel Request button (src/unnamed/part_002)     *)
(***************************************************************************)
\* the methods route.ts of /api/user/[userid] exports a handler for
UserRouteMethods == {"POST", "GET"}

\* the answer of the router to a method the route has no handler for
MethodNotAllowed == [JsonEmpty EXCEPT !.code = 405]

\* fetchRequests of the user page: GET /api/user/[userid], then
\* setRequests(data) when response.ok
fetchUserRequests(s, dbOk) ==
    /\ dash.sessions[s].fetching
    /\ GET_user(s, dbOk)
    /\ dash' = [dash EXCEPT !.sessions[s].requests =
                                IF Ok(last'.resp) THEN last'.resp.rows ELSE @,
                            !.sessions[s].fetching = FALSE]
    /\ UNCHANGED inflight

\* handleCancelRequest from a click on Cancel Request, which is rendered
\* with the listed requests whose status is pending: after confirm(), DELETE
\* is sent to /api/user/[userid], and a new fetch follows when response.ok
handleCancelRequest(s, id, confirmed) ==
    /\ OfferedIfPending(dash.sessions[s].requests, id)
    /\ UNCHANGED <<users, store, nextId, inflight>>
    /\ pre' = store
    /\ IF ~confirmed
       THEN /\ last' = Call("CANCEL", s, 0, NoBody, "unused", "none", JsonEmpty)
            /\ dash' = [dash EXCEPT !.clicked =
                           [session |-> s, id |-> id, status |-> "dismissed",
                            shown |-> ShownStatus(dash.sessions[s].requests, id)]]
       ELSE LET resp == IF "DELETE" \in UserRouteMethods
                        THEN JsonMessage("Request deleted successfully")
                        ELSE MethodNotAllowed
            IN
            /\ last' = Call("CANCEL", s, 0, NoBody, "unused", "none", resp)
            /\ dash' = [dash EXCEPT !.sessions[s].fetching =
                                        IF Ok(resp) THEN TRUE ELSE @,
                                    !.clicked =
                           [session |-> s, id |-> id, status |-> "confirmed",
                            shown |-> ShownStatus(dash.sessions[s].requests, id)]]

(***************************************************************************)
(* fetchRequests step by step: the request is sent, the route handler      *)
(* reads the store, and the response reaches the page, where responses of  *)
(* different fetches arrive in any order                                   *)
(***************************************************************************)
\* fetchRequests is called: the n-th GET /api/holidays of the session leaves
fetchSend(s) ==
    /\ dash.sessions[s].fetching
    /\ dash' = [dash EXCEPT
                   !.sessions[s].fetching = FALSE,
                   !.sessions[s].issued = @ + 1,
                   !.sessions[s].fetches =
                       @ \cup {[n |-> dash.sessions[s].issued + 1,
                                stage |-> "sent", rows |-> <<>>]}]
    /\ UNCHANGED <<users, store, nextId, pre, last, inflight>>

\* the route handler answers the fetch f from the store as it is now
fetchServe(s, f) ==
    /\ f \in dash.sessions[s].fetches
    /\ f.stage = "sent"
    /\ GET_all(TRUE)
    /\ dash' = [dash EXCEPT
                   !.sessions[s].fetches =
                       (@ \ {f}) \cup {[f EXCEPT !.stage = "answered",
                                                 !.rows = last'.resp.rows]}]
    /\ UNCHANGED inflight

\* the response of the fetch f arrives: setRequests(data)
fetchDeliver(s, f) ==
    /\ f \in dash.sessions[s].fetches
    /\ f.stage = "answered"
    /\ dash' = [dash EXCEPT
                   !.sessions[s].requests = f.rows,
                   !.sessions[s].shown = f.n,
                   !.sessions[s].fetches = @ \ {f}]
    /\ UNCHANGED <<users, store, nextId, pre, last, inflight>>

(***************************************************************************)
(* Specification                                                           *)
(***************************************************************************)
\* useState initial value of filters, and what clearFilters sets
DefaultFilters ==
    [status |-> "all", type |-> "all", search |-> "", dateFrom |-> "",
     dateTo |-> ""]

\* a dashboard component before it is mounted: the useState initial values
Unmounted ==
    [view |-> "none", requests |-> <<>>, filters |-> DefaultFilters,
     filteredRequests |-> <<>>, effect |-> "idle"]

\* the tables after the migration, with the given users rows
InitWith(us) ==
    /\ users = us
    /\ store = <<>>
    /\ nextId = 1
    /\ pre = <<>>
    /\ last = Call("none", "", 0, NoBody, "unused", "none", JsonEmpty)
    /\ inflight = NoCall
    /\ dash = Unmounted

Init == InitWith(InitialUsers)

\* what the store and the mail transport do during one call: a call whose
\* store statement throws never reaches the mail transport
Environments ==
    {[db |-> TRUE, mail |-> TRUE], [db |-> TRUE, mail |-> FALSE],
     [db |-> FALSE, mail |-> TRUE]}

CreateRequest ==
    /\ \E u \in UserIds, body \in Bodies, env \in Environments :
           POST(u, body, env.db, env.mail)
    /\ UNCHANGED aux

ListRequestsForUser ==
    /\ \E u \in UserIds, dbOk \in BOOLEAN : GET_user(u, dbOk)
    /\ UNCHANGED aux

ListAllRequests ==
    /\ \E dbOk \in BOOLEAN : GET_all(dbOk)
    /\ UNCHANGED aux

UpdateStatus ==
    /\ \E id \in Ids, s \in StatusInputs, dbOk \in BOOLEAN :
           PATCH(id, StatusBody(s), dbOk)
    /\ UNCHANGED aux

DeleteRequest ==
    /\ \E id \in Ids, dbOk \in BOOLEAN : DELETE(id, dbOk)
    /\ UNCHANGED aux

UserRemoved ==
    /\ \E u \in UserIds : RemoveUser(u)
    /\ UNCHANGED aux

Next ==
    \/ CreateRequest
    \/ ListRequestsForUser
    \/ ListAllRequests
    \/ UpdateStatus
    \/ DeleteRequest
    \/ UserRemoved

Spec == Init /\ [][Next]_vars

(***************************************************************************)
(* The list handlers over the requests of two users                        *)
(***************************************************************************)
TwoUsers == {"u1", "u2"}

\* complete bodies that pass the date check, without a status property
OrderedBodies ==
    {b \in CompleteBodies : b.status = Undefined /\ ~EndBeforeStart(b)}

InitLists == InitWith(TwoUsers)

CreateByEither ==
    /\ \E u \in TwoUsers \cup {"u9"}, body \in OrderedBodies, env \in Environments :
           POST(u, body, env.db, env.mail)
    /\ UNCHANGED aux

ListForEither ==
    /\ \E u \in TwoUsers \cup {"u9"}, dbOk \in BOOLEAN : GET_user(u, dbOk)
    /\ UNCHANGED aux

EitherRemoved ==
    /\ \E u \in TwoUsers : RemoveUser(u)
    /\ UNCHANGED aux

NextLists ==
    \/ CreateByEither
    \/ ListForEither
    \/ ListAllRequests
    \/ DeleteRequest
    \/ EitherRemoved

SpecLists == InitLists /\ [][NextLists]_vars

(***************************************************************************)
(* Creations racing with the removal of users                              *)
(***************************************************************************)
RaceBodies == OrderedBodies \cup {EmptyBody}

SelectForEither ==
    \E u \in TwoUsers \cup {"u9"}, body \in RaceBodies, dbOk \in BOOLEAN :
        POST_select(u, body, dbOk)

InsertForEither == \E dbOk \in BOOLEAN : POST_insert(dbOk)

NotifyForEither == \E mailOk \in BOOLEAN : POST_notify(mailOk)

NextRace ==
    \/ SelectForEither
    \/ InsertForEither
    \/ NotifyForEither
    \/ POST_respond
    \/ EitherRemoved
    \/ ListAllRequests

SpecRace == InitLists /\ [][NextRace]_vars

(***************************************************************************)
(* Callers that post to the route directly, without the dashboard's form   *)
(***************************************************************************)
\* complete bodies whose reason may be white space only and whose end date
\* may be text that new Date() cannot parse
DirectBodies ==
    [name : {"Ann"}, email : {"ann@corp"}, type : {"holiday"},
     reason : {"sick", " "},
     startDate : {DateStrings[i] : i \in 1..Len(DateStrings)},
     endDate : {DateStrings[i] : i \in 1..Len(DateStrings)} \cup {"epoch", "soon"},
     status : {Undefined}]

CreateDirect ==
    /\ \E u \in UserIds, body \in DirectBodies, env \in Environments :
           POST(u, body, env.db, env.mail)
    /\ UNCHANGED aux

NextDirect ==
    \/ CreateDirect
    \/ ListAllRequests
    \/ DeleteRequest

SpecDirect == Init /\ [][NextDirect]_vars

(***************************************************************************)
(* The filter effects on snapshots a dashboard has fetched                 *)
(***************************************************************************)
\* the longest snapshot
MaxSnapshot == 3

\* the days a request or a filter window may name
WindowDates == {"2024-06-05", "2024-06-10", "2024-06-12"}

\* the first and the last day of a stored request
Intervals ==
    {<<"2024-06-05", "2024-06-05">>, <<"2024-06-05", "2024-06-10">>,
     <<"2024-06-05", "2024-06-12">>, <<"2024-06-10", "2024-06-12">>}

Kinds ==
    {[type |-> "holiday", status |-> "pending", base |-> 0],
     [type |-> "halfday", status |-> "accepted", base |-> 100000]}

\* stored rows, each with its own id
FilterRows ==
    {[id |-> k.base + ParseDate(iv[1]) + ParseDate(iv[2]), userid |-> "u1",
      name |-> "Ann", email |-> "ann@corp", type |-> k.type, reason |-> "sick",
      startDate |-> iv[1], endDate |-> iv[2], status |-> k.status] :
        iv \in Intervals, k \in Kinds}

\* what a list operation may have answered: distinct rows, latest start first
Snapshots ==
    UNION {{s \in [1..n -> FilterRows] :
               /\ \A i, j \in 1..n : i # j => s[i].id # s[j].id
               /\ SortedByStartDesc(s)} : n \in 0..MaxSnapshot}

Views == {"user", "admin", "employee"}

FilterValues(key) ==
    CASE key = "status" -> {"all", "pending"}
      [] key = "type" -> {"all", "holiday"}
      [] key = "search" -> {"", "AN"}
      [] key = "dateFrom" -> {""} \cup WindowDates
      [] key = "dateTo" -> {""} \cup WindowDates

\* a dashboard whose fetch has just completed
InitFilter ==
    /\ users = InitialUsers
    /\ store = <<>>
    /\ nextId = 1
    /\ pre = <<>>
    /\ last = Call("none", "", 0, NoBody, "unused", "none", JsonEmpty)
    /\ inflight = NoCall
    /\ dash \in {[view |-> v, requests |-> s, filters |-> DefaultFilters,
                  filteredRequests |-> IF v = "employee" THEN <<>> ELSE s,
                  effect |-> "pending"] : v \in Views, s \in Snapshots}

ChangeFilter ==
    \E key \in DOMAIN DefaultFilters : \E value \in FilterValues(key) :
        handleFilterChange(key, value)

UserFilterEffect == FilterEffect("user", UserFilter(dash.requests, dash.filters))

AdminFilterEffect == FilterEffect("admin", AdminFilter(dash.requests, dash.filters))

EmployeeFilterEffect ==
    FilterEffect("employee", EmployeeFilter(dash.requests, dash.filters))

NextFilter ==
    \/ ChangeFilter
    \/ clearFilters
    \/ UserFilterEffect
    \/ AdminFilterEffect
    \/ EmployeeFilterEffect

SpecFilter == InitFilter /\ [][NextFilter]_vars

(***************************************************************************)
(* A dashboard from its mount on: fetches complete, filters change, and    *)
(* every state is rendered                                                 *)
(***************************************************************************)
DashStatuses ==
    {[status |-> "pending", base |-> 0], [status |-> "accepted", base |-> 100],
     [status |-> "denied", base |-> 200]}

DashIntervals ==
    {<<"2024-06-05", "2024-06-05">>, <<"2024-06-10", "2024-06-12">>}

DashRows ==
    {[id |-> k.base + ParseDate(iv[2]) - ParseDate(iv[1]), userid |-> "u1",
      name |-> "Ann", email |-> "ann@corp", type |-> "holiday", reason |-> "sick",
      startDate |-> iv[1], endDate |-> iv[2], status |-> k.status] :
        iv \in DashIntervals, k \in DashStatuses}

\* what a list operation may have answered: distinct rows, latest start first
DashSnapshots ==
    UNION {{s \in [1..n -> DashRows] :
               /\ \A i, j \in 1..n : i # j => s[i].id # s[j].id
               /\ SortedByStartDesc(s)} : n \in 0..MaxSnapshot}

DashFilterValues(key) ==
    CASE key = "status" -> {"all", "pending", "accepted"}
      [] key = "dateTo" -> {"", "2024-06-10"}

\* a dashboard that has mounted and not yet rendered
InitDash ==
    /\ users = InitialUsers
    /\ store = <<>>
    /\ nextId = 1
    /\ pre = <<>>
    /\ last = Call("none", "", 0, NoBody, "unused", "none", JsonEmpty)
    /\ inflight = NoCall
    /\ dash \in {[view |-> v, requests |-> <<>>, filters |-> DefaultFilters,
                  filteredRequests |-> <<>>, effect |-> "pending",
                  screen |-> NoScreen, painted |-> FALSE] : v \in Views}

FetchCompletes == \E data \in DashSnapshots : fetchRequestsDone(data)

DashFilterChanges ==
    \E key \in {"status", "dateTo"} : \E value \in DashFilterValues(key) :
        ChangeFilterRendered(key, value)

UserEffect == EffectAfterRender("user", UserFilter(dash.requests, dash.filters))

AdminEffect == EffectAfterRender("admin", AdminFilter(dash.requests, dash.filters))

EmployeeEffect ==
    EffectAfterRender("employee", EmployeeFilter(dash.requests, dash.filters))

NextDash ==
    \/ FetchCompletes
    \/ DashFilterChanges
    \/ Render
    \/ UserEffect
    \/ AdminEffect
    \/ EmployeeEffect

SpecDash == InitDash /\ [][NextDash]_vars

(***************************************************************************)
(* The search box of the three dashboards                                  *)
(***************************************************************************)
SearchPeople ==
    {[name |-> "Ann", email |-> "ann@corp", base |-> 0],
     [name |-> "Bob", email |-> "bob@corp", base |-> 10]}

SearchKinds ==
    {[type |-> "holiday", reason |-> "sick", base |-> 1],
     [type |-> "halfday", reason |-> "Trip", base |-> 2]}

SearchRows ==
    {[id |-> p.base + k.base, userid |-> "u1", name |-> p.name,
      email |-> p.email, type |-> k.type, reason |-> k.reason,
      startDate |-> "2024-06-10", endDate |-> "2024-06-10",
      status |-> "pending"] : p \in SearchPeople, k \in SearchKinds}

SearchSnapshots ==
    UNION {{s \in [1..n -> SearchRows] :
               \A i, j \in 1..n : i # j => s[i].id # s[j].id} : n \in 0..MaxSnapshot}

\* what is typed into the search box
SearchStrings == {"", " ", "AN", "HOL", "tri"}

InitSearch ==
    /\ users = InitialUsers
    /\ store = <<>>
    /\ nextId = 1
    /\ pre = <<>>
    /\ last = Call("none", "", 0, NoBody, "unused", "none", JsonEmpty)
    /\ inflight = NoCall
    /\ dash \in {[view |-> v, requests |-> s, filters |-> DefaultFilters,
                  filteredRequests |-> IF v = "employee" THEN <<>> ELSE s,
                  effect |-> "pending"] : v \in Views, s \in SearchSnapshots}

SearchChanges == \E value \in SearchStrings : handleFilterChange("search", value)

NextSearch ==
    \/ SearchChanges
    \/ UserFilterEffect
    \/ AdminFilterEffect
    \/ EmployeeFilterEffect

SpecSearch == InitSearch /\ [][NextSearch]_vars

(***************************************************************************)
(* Two administrative sessions deciding on one request                     *)
(***************************************************************************)
AdminSessions == {"a1", "a2"}

InitAdmins ==
    /\ users = InitialUsers
    /\ store = <<>>
    /\ nextId = 1
    /\ pre = <<>>
    /\ last = Call("none", "", 0, NoBody, "unused", "none", JsonEmpty)
    /\ inflight = NoCall
    /\ dash = [sessions |-> [s \in AdminSessions |->
                               [view |-> IF s = "a1" THEN "admin" ELSE "employee",
                                requests |-> <<>>, fetching |-> TRUE]],
               clicked |-> NoClick]

\* one employee files one request
CreateOne ==
    /\ nextId = 1
    /\ \E body \in OrderedBodies, env \in Environments :
           POST("u1", body, env.db, env.mail)
    /\ UNCHANGED aux

AdminFetches == \E s \in AdminSessions : fetchRequests(s)

AdminDecides ==
    \E s \in AdminSessions, id \in Ids, newStatus \in ButtonStatuses,
       dbOk \in BOOLEAN :
        updateRequestStatus(s, id, newStatus, dbOk)

AdminReloads == \E s \in AdminSessions : Remount(s)

NextAdmins ==
    \/ CreateOne
    \/ AdminFetches
    \/ AdminDecides
    \/ AdminReloads

SpecAdmins == InitAdmins /\ [][NextAdmins]_vars

(***************************************************************************)
(* An employee on the page with the Cancel Request button                  *)
(***************************************************************************)
InitCancel ==
    /\ users = InitialUsers
    /\ store = <<>>
    /\ nextId = 1
    /\ pre = <<>>
    /\ last = Call("none", "", 0, NoBody, "unused", "none", JsonEmpty)
    /\ inflight = NoCall
    /\ dash = [sessions |-> [s \in InitialUsers |->
                               [view |-> "user", requests |-> <<>>,
                                fetching |-> TRUE]],
               clicked |-> NoClick]

\* requests of a single day
OneDayBodies == {b \in OrderedBodies : b.startDate = b.endDate}

\* handleSubmitRequest: POST, and a new fetch when response.ok
UserSubmits ==
    \E s \in InitialUsers, body \in OneDayBodies, env \in Environments :
        /\ validateForm(FormOf(body))
        /\ POST(s, body, env.db, env.mail)
        /\ dash' = [dash EXCEPT !.sessions[s].fetching =
                                    IF Ok(last'.resp) THEN TRUE ELSE @]
        /\ UNCHANGED inflight

UserFetches ==
    \E s \in InitialUsers, dbOk \in BOOLEAN : fetchUserRequests(s, dbOk)

UserCancels ==
    \E s \in InitialUsers, id \in Ids, confirmed \in BOOLEAN :
        handleCancelRequest(s, id, confirmed)

\* an administrator decides on a request
Decided ==
    /\ \E id \in Ids, s \in ButtonStatuses : PATCH(id, StatusBody(s), TRUE)
    /\ UNCHANGED aux

UserReloads == \E s \in InitialUsers : Remount(s)

NextCancel ==
    \/ UserSubmits
    \/ UserFetches
    \/ UserCancels
    \/ Decided
    \/ UserReloads

SpecCancel == InitCancel /\ [][NextCancel]_vars

(***************************************************************************)
(* One administrative session whose fetches overlap                        *)
(***************************************************************************)
\* the fetches a session issues
MaxFetches == 3

InitFetches ==
    /\ users = InitialUsers
    /\ store = <<>>
    /\ nextId = 1
    /\ pre = <<>>
    /\ last = Call("none", "", 0, NoBody, "unused", "none", JsonEmpty)
    /\ inflight = NoCall
    /\ dash = [sessions |-> [s \in {"a1"} |->
                               [view |-> "admin", requests |-> <<>>,
                                fetching |-> TRUE, issued |-> 0, shown |-> 0,
                                fetches |-> {}]],
               clicked |-> NoClick]

FetchLeaves ==
    \E s \in {"a1"} : dash.sessions[s].issued < MaxFetches /\ fetchSend(s)

FetchServed ==
    \E s \in {"a1"} : \E f \in dash.sessions[s].fetches : fetchServe(s, f)

FetchArrives ==
    \E s \in {"a1"} : \E f \in dash.sessions[s].fetches : fetchDeliver(s, f)

OneAdminDecides ==
    \E id \in Ids, newStatus \in ButtonStatuses, dbOk \in BOOLEAN :
        updateRequestStatus("a1", id, newStatus, dbOk)

NextFetches ==
    \/ CreateOne
    \/ FetchLeaves
    \/ FetchServed
    \/ FetchArrives
    \/ OneAdminDecides

SpecFetches == InitFetches /\ [][NextFetches]_vars

(***************************************************************************)
(* createRequest statement by statement                                    *)
(***************************************************************************)
NotifyBodies == {b \in CompleteBodies : b.status = Undefined} \cup {EmptyBody}

SelectStep ==
    \E u \in UserIds, body \in NotifyBodies, dbOk \in BOOLEAN :
        POST_select(u, body, dbOk)

InsertStep == \E dbOk \in BOOLEAN : POST_insert(dbOk)

NotifyStep == \E mailOk \in BOOLEAN : POST_notify(mailOk)

NextNotify ==
    \/ SelectStep
    \/ InsertStep
    \/ NotifyStep
    \/ POST_respond

SpecNotify == Init /\ [][NextNotify]_vars

(***************************************************************************)
(* The date filters of the dashboards on the same snapshot and window      *)
(***************************************************************************)
\* stored intervals, the last being one that ends before it starts
WindowIntervals ==
    {<<"2024-06-05", "2024-06-05">>, <<"2024-06-05", "2024-06-12">>,
     <<"2024-06-10", "2024-06-12">>, <<"2024-06-10", "1970-01-01">>}

WindowRows ==
    {[id |-> ParseDate(iv[1]) + ParseDate(iv[2]), userid |-> "u1",
      name |-> "Ann", email |-> "ann@corp", type |-> "holiday", reason |-> "sick",
      startDate |-> iv[1], endDate |-> iv[2], status |-> "pending"] :
        iv \in WindowIntervals}

WindowSnapshots ==
    UNION {{s \in [1..n -> WindowRows] :
               /\ \A i, j \in 1..n : i # j => s[i].id # s[j].id
               /\ SortedByStartDesc(s)} : n \in 0..MaxSnapshot}

\* the three dashboards with the same snapshot and the same filters
InitWindows ==
    /\ users = InitialUsers
    /\ store = <<>>
    /\ nextId = 1
    /\ pre = <<>>
    /\ last = Call("none", "", 0, NoBody, "unused", "none", JsonEmpty)
    /\ inflight = NoCall
    /\ dash \in {[view |-> "each", requests |-> s, filters |-> DefaultFilters,
                  filteredRequests |-> [v \in Views |-> <<>>],
                  effect |-> "pending"] : s \in WindowSnapshots}

WindowChanges ==
    \E key \in {"dateFrom", "dateTo"} : \E value \in FilterValues(key) :
        handleFilterChange(key, value)

\* the filter effect of each dashboard
EachFilterEffect ==
    FilterEffect("each",
        [v \in Views |->
            CASE v = "user" -> UserFilter(dash.requests, dash.filters)
              [] v = "admin" -> AdminFilter(dash.requests, dash.filters)
              [] v = "employee" -> EmployeeFilter(dash.requests, dash.filters)])

NextWindows ==
    \/ WindowChanges
    \/ EachFilterEffect

SpecWindows == InitWindows /\ [][NextWindows]_vars

(***************************************************************************)
(* Vocabulary of the properties                                            *)
(***************************************************************************)
\* position of a date string in the calendar
DateIndex(s) == CHOOSE i \in 1..Len(DateStrings) : DateStrings[i] = s

\* every required property of the body is present and non-empty
Complete(b) == \A f \in RequiredFields : b[f] \notin {Undefined, ""}

\* the body's end date lies before its start date in the calendar
EndsBeforeItStarts(b) == DateIndex(b.endDate) < DateIndex(b.startDate)

ValidationMessages ==
    {"All fields are required", "End date must be after start date",
     "Invalid status. Must be 'accepted', 'denied', or 'pending'"}

\* a 4xx response that carries one of the validation messages
IsValidationError(resp) ==
    /\ resp.kind = "error"
    /\ resp.code \in 400..499
    /\ resp.error \in ValidationMessages

\* a 4xx response that carries a message other than a validation message
IsNotFoundError(resp) ==
    /\ resp.kind = "error"
    /\ resp.code \in 400..499
    /\ resp.error \notin ValidationMessages \cup {""}

\* the call created a row: 201, the row in the body, the row in the store
\* under an id the store did not hold before
Created(call) ==
    /\ call.resp.kind = "row"
    /\ call.resp.code = 201
    /\ LET row == call.resp.rows[1] IN
        /\ row.id \notin DOMAIN pre
        /\ row.id \in DOMAIN store
        /\ store[row.id] = row
        /\ \A i \in DOMAIN pre : i \in DOMAIN store /\ store[i] = pre[i]
        /\ DOMAIN store = DOMAIN pre \cup {row.id}

(***************************************************************************)
(* C1  Every createRequest call that passes validation, names an existing  *)
(* user and finds the store available inserts and returns a request whose  *)
(* status is pending, whatever status property the body carried.           *)
(***************************************************************************)
C1_CreatedStatusPending ==
    (/\ last.op = "POST"
     /\ Complete(last.body)
     /\ ~EndsBeforeItStarts(last.body)
     /\ last.userid \in users
     /\ last.db = "ok")
    => /\ Created(last)
       /\ last.resp.rows[1].status = "pending"
       /\ store[last.resp.rows[1].id].status = "pending"

C1_Witness ==
    /\ last.op = "POST"
    /\ last.body.status = "accepted"
    /\ last.resp.code = 201
    /\ last.resp.rows[1].status = "pending"

(***************************************************************************)
(* C2  createRequest answers 400 "All fields are required" whenever one of *)
(* name, email, reason, startDate, endDate, type is absent or empty, and   *)
(* then the store is as it was before the call and nothing is notified.    *)
(***************************************************************************)
C2_MissingFieldRejected ==
    (/\ last.op = "POST"
     /\ \E f \in RequiredFields : last.body[f] \in {Undefined, ""})
    => /\ IsValidationError(last.resp)
       /\ last.resp.code = 400
       /\ last.resp.error = "All fields are required"
       /\ store = pre
       /\ last.mail = "none"

C2_Witness ==
    /\ last.op = "POST"
    /\ last.body.type = ""
    /\ Complete([last.body EXCEPT !.type = "holiday"])
    /\ last.resp.code = 400
    /\ store # <<>>

(***************************************************************************)
(* C3  createRequest answers 400 and inserts nothing whenever the end date *)
(* lies before the start date, and accepts a request whose start and end   *)
(* date are the same day; validateForm draws the line at the same place.   *)
(***************************************************************************)
C3_DateOrderChecked ==
    (last.op = "POST" /\ Complete(last.body))
    => /\ EndsBeforeItStarts(last.body)
          => /\ IsValidationError(last.resp)
             /\ last.resp.error = "End date must be after start date"
             /\ store = pre
             /\ last.mail = "none"
             /\ ~validateForm(FormOf(last.body))
       /\ last.body.startDate = last.body.endDate
          => /\ ~IsValidationError(last.resp)
             /\ (last.userid \in users /\ last.db = "ok") => Created(last)
             /\ validateForm(FormOf(last.body))

C3_Witness ==
    /\ last.op = "POST"
    /\ last.body.startDate = "2024-06-10"
    /\ last.body.endDate = "2024-06-05"
    /\ last.resp.code = 400
    /\ \E i \in DOMAIN store : store[i].startDate = store[i].endDate

(***************************************************************************)
(* C4  createRequest with complete, well-ordered fields and a userid that  *)
(* is in no users row answers with a not-found error (4xx, "User does not  *)
(* exist"), inserts nothing and notifies nobody.                           *)
(***************************************************************************)
C4_UnknownUserRejected ==
    (/\ last.op = "POST"
     /\ Complete(last.body)
     /\ ~EndsBeforeItStarts(last.body)
     /\ last.userid \notin users
     /\ last.db = "ok")
    => /\ IsNotFoundError(last.resp)
       /\ last.resp.error = "User does not exist"
       /\ store = pre
       /\ last.mail = "none"

C4_Witness ==
    /\ last.op = "POST"
    /\ Complete(last.body)
    /\ last.userid \notin users
    /\ last.resp.error = "User does not exist"

(***************************************************************************)
(* C5  When the insert succeeded and the notification failed, the call     *)
(* still answers 201 with the created request, and the request is in the   *)
(* store.                                                                  *)
(***************************************************************************)
C5_MailFailureSwallowed ==
    (last.op = "POST" /\ last.mail = "failed") => Created(last)

C5_Witness ==
    /\ last.op = "POST"
    /\ last.mail = "failed"
    /\ last.resp.code = 201
    /\ store # <<>>

(***************************************************************************)
(* C6  updateStatus with a status outside {pending, accepted, denied}, or  *)
(* with none, fails with a validation error whatever the row's current     *)
(* status, and the store is as it was before the call.                     *)
(***************************************************************************)
C6_InvalidStatusRejected ==
    (last.op = "PATCH" /\ last.body.status \notin RequestStatuses)
    => /\ IsValidationError(last.resp)
       /\ store = pre

(***************************************************************************)
(* C7  Every failing outcome of updateStatus, deleteRequest and            *)
(* listAllRequests carries a non-success signal: 4xx for a rejected status *)
(* value, 5xx for a store failure, so that response.ok is false.           *)
(***************************************************************************)
C7_FailuresSignalled ==
    (last.op \in {"PATCH", "DELETE", "GET_all"})
    => /\ (last.op = "PATCH" /\ last.body.status \notin RequestStatuses)
          => last.resp.code \in 400..499
       /\ last.db = "down" => last.resp.code \in 500..599
       /\ last.resp.kind = "error" => ~Ok(last.resp)

(***************************************************************************)
(* C8  updateStatus with a valid status and an id that is not in the store *)
(* fails with a not-found error and leaves the store unchanged.            *)
(***************************************************************************)
C8_UpdateUnknownIdNotFound ==
    (/\ last.op = "PATCH"
     /\ last.body.status \in RequestStatuses
     /\ last.id \notin DOMAIN pre
     /\ last.db = "ok")
    => /\ IsNotFoundError(last.resp)
       /\ store = pre

(***************************************************************************)
(* C9  No transition is forbidden: for an existing request with any        *)
(* current status and any new status in {pending, accepted, denied},       *)
(* updateStatus succeeds when the store is available, returns the row with *)
(* the new status, and the stored status is the new one; nothing else in   *)
(* the store changes.                                                      *)
(***************************************************************************)
C9_AnyTransitionAllowed ==
    (/\ last.op = "PATCH"
     /\ last.body.status \in RequestStatuses
     /\ last.id \in DOMAIN pre
     /\ last.db = "ok")
    => /\ Ok(last.resp)
       /\ last.resp.kind = "row"
       /\ last.resp.rows[1] = [pre[last.id] EXCEPT !.status = last.body.status]
       /\ DOMAIN store = DOMAIN pre
       /\ store[last.id] = [pre[last.id] EXCEPT !.status = last.body.status]
       /\ \A i \in DOMAIN pre \ {last.id} : store[i] = pre[i]

C9_Witness ==
    /\ last.op = "PATCH"
    /\ last.id \in DOMAIN pre
    /\ pre[last.id].status = "denied"
    /\ last.body.status = "accepted"
    /\ last.resp.kind = "row"
    /\ store[last.id].status = "accepted"
    /\ Cardinality(DOMAIN store) > 1

(***************************************************************************)
(* C10  deleteRequest on an id that is not in the store fails with a       *)
(* not-found error and does not report a successful deletion.              *)
(***************************************************************************)
C10_DeleteUnknownIdNotFound ==
    (/\ last.op = "DELETE"
     /\ last.id \notin DOMAIN pre
     /\ last.db = "ok")
    => /\ IsNotFoundError(last.resp)
       /\ last.resp.kind # "message"

(***************************************************************************)
(* C11  A successful deleteRequest on a stored id removes exactly that row *)
(* and leaves every other row as it was; an id that has left the store     *)
(* never comes back, and no later list result contains it.                 *)
(***************************************************************************)
C11_DeletedStaysGone ==
    [][/\ (last'.op = "DELETE" /\ last'.db = "ok" /\ last'.id \in DOMAIN store)
          => /\ Ok(last'.resp)
             /\ last'.id \notin DOMAIN store'
             /\ DOMAIN store' = DOMAIN store \ {last'.id}
             /\ \A i \in DOMAIN store' : store'[i] = store[i]
       /\ \A id \in Ids :
            (id < nextId /\ id \notin DOMAIN store)
            => /\ id \notin DOMAIN store'
               /\ last'.resp.kind = "list"
                  => \A k \in 1..Len(last'.resp.rows) :
                        last'.resp.rows[k].id # id
      ]_vars

C11_Witness ==
    /\ last.op \in {"GET_all", "GET_user"}
    /\ last.resp.kind = "list"
    /\ Len(last.resp.rows) >= 1
    /\ users = InitialUsers
    /\ \E id \in Ids : id < nextId /\ id \notin DOMAIN store

(***************************************************************************)
(* C16  The status of a stored request changes only in a step that is an   *)
(* updateStatus call naming that request and carrying the new status;      *)
(* creating, listing, deleting, removing a user and updating another       *)
(* request leave it as it was.                                             *)
(***************************************************************************)
C16_StatusChangesOnlyByUpdate ==
    [][\A id \in DOMAIN store \cap DOMAIN store' :
          store'[id].status # store[id].status
          => /\ last'.op = "PATCH"
             /\ last'.id = id
             /\ last'.db = "ok"
             /\ last'.body.status = store'[id].status
      ]_vars

C16_Witness ==
    /\ last.op = "PATCH"
    /\ last.id \in DOMAIN pre
    /\ store[last.id].status # pre[last.id].status
    /\ \E j \in DOMAIN store : j # last.id /\ j \in DOMAIN pre /\ store[j] = pre[j]

\* the rows of a list response, as a set
Listed(resp) == {resp.rows[k] : k \in 1..Len(resp.rows)}

(***************************************************************************)
(* C12  With the store available, listRequestsForUser(u) answers with a    *)
(* list that holds each stored request owned by u exactly once and no      *)
(* other request; when u owns none, or is no user, the list is empty and   *)
(* the response is not an error.                                           *)
(***************************************************************************)
C12_ListForUserExact ==
    (last.op = "GET_user" /\ last.db = "ok")
    => /\ last.resp.kind = "list"
       /\ Ok(last.resp)
       /\ Listed(last.resp) = {r \in RowsOf(store) : r.userid = last.userid}
       /\ Len(last.resp.rows) = Cardinality(Listed(last.resp))

C12_Witness ==
    /\ last.op = "GET_user"
    /\ last.userid = "u1"
    /\ Len(last.resp.rows) >= 1
    /\ \E i \in DOMAIN store : store[i].userid = "u2"

(***************************************************************************)
(* C13  With the store available, listAllRequests answers with a list that *)
(* holds every stored request exactly once, and every list either list     *)
(* operation returns is in descending order of start date.                 *)
(***************************************************************************)
C13_ListAllOrdered ==
    /\ (last.op = "GET_all" /\ last.db = "ok")
       => /\ last.resp.kind = "list"
          /\ Listed(last.resp) = RowsOf(store)
          /\ Len(last.resp.rows) = Cardinality(RowsOf(store))
    /\ (last.op \in {"GET_all", "GET_user"} /\ last.resp.kind = "list")
       => \A k \in 1..(Len(last.resp.rows) - 1) :
             DateIndex(last.resp.rows[k].startDate)
                >= DateIndex(last.resp.rows[k + 1].startDate)

C13_Witness ==
    /\ last.op = "GET_all"
    /\ Len(last.resp.rows) >= 2
    /\ last.resp.rows[1].startDate = "2024-06-10"
    /\ last.resp.rows[2].startDate = "2024-06-05"

\* the calendar, in order
Calendar == <<"1970-01-01", "2024-06-05", "2024-06-10", "2024-06-12">>

\* position of a stored date in the calendar
CalendarIndex(s) == CHOOSE i \in 1..Len(Calendar) : Calendar[i] = s

(***************************************************************************)
(* C14  In every reachable state every stored request ends on or after the *)
(* day it starts.                                                          *)
(***************************************************************************)
C14_StoredEndNotBeforeStart ==
    \A i \in DOMAIN store :
        CalendarIndex(store[i].endDate) >= CalendarIndex(store[i].startDate)

(***************************************************************************)
(* C15  In every reachable state every stored request has a reason that is *)
(* not empty once leading and trailing white space is removed.             *)
(***************************************************************************)
C15_StoredReasonNotBlank ==
    \A i \in DOMAIN store : store[i].reason \notin {"", " "}

(***************************************************************************)
(* C17  Whatever the interleaving of creations and removals of users,      *)
(* every stored request belongs to a user that exists, and removing a user *)
(* removes exactly the requests of that user.                              *)
(***************************************************************************)
C17_OwnerAlwaysExists ==
    /\ \A i \in DOMAIN store : store[i].userid \in users
    /\ last.op = "RemoveUser"
       => /\ last.userid \notin users
          /\ DOMAIN store = {i \in DOMAIN pre : pre[i].userid # last.userid}
          /\ \A i \in DOMAIN store : store[i] = pre[i]

\* a creation whose user was removed after the lookup and before the insert,
\* with a request of the other user still stored
C17_Witness ==
    /\ last.op = "POST"
    /\ last.db = "refused"
    /\ last.userid \notin users
    /\ last.userid \in TwoUsers
    /\ store # <<>>

\* a is b with some elements left out, the others in the order of b
IsSubsequence(a, b) ==
    \E f \in [1..Len(a) -> 1..Len(b)] :
        /\ \A i \in 1..Len(a) : a[i] = b[f[i]]
        /\ \A i, j \in 1..Len(a) : i < j => f[i] < f[j]

\* the filter effect has run on the current snapshot and filters
Filtered == dash.view # "none" /\ dash.effect = "done"

(***************************************************************************)
(* C18  With every filter at its default the filtered list is the snapshot *)
(* itself, and under every filter configuration the filtered list is a     *)
(* subsequence of the snapshot, in the snapshot's order.                   *)
(***************************************************************************)
C18_FilterKeepsOrder ==
    Filtered
    => /\ dash.filters = DefaultFilters => dash.filteredRequests = dash.requests
       /\ IsSubsequence(dash.filteredRequests, dash.requests)

\* a filter that drops the middle row of three and keeps the other two
C18_Witness ==
    /\ Filtered
    /\ Len(dash.requests) = 3
    /\ dash.filteredRequests = <<dash.requests[1], dash.requests[3]>>

\* the day s is on or before the day t
OnOrBefore(s, t) == CalendarIndex(s) <= CalendarIndex(t)

\* the overlap rule on a request and a window
Overlaps(r, f) ==
    /\ f.dateTo = "" \/ OnOrBefore(r.startDate, f.dateTo)
    /\ f.dateFrom = "" \/ OnOrBefore(f.dateFrom, r.endDate)

\* the containment rule on a request and a window
Contained(r, f) ==
    /\ f.dateFrom = "" \/ OnOrBefore(f.dateFrom, r.startDate)
    /\ f.dateTo = "" \/ OnOrBefore(r.endDate, f.dateTo)

\* only the date window is set
OnlyDates ==
    /\ dash.filters.status = "all"
    /\ dash.filters.type = "all"
    /\ dash.filters.search = ""

(***************************************************************************)
(* C19  In the administrative dashboards a request that is listed overlaps *)
(* the date window, and when only the window is set the listed requests    *)
(* are exactly those of the snapshot that overlap it.                      *)
(***************************************************************************)
C19_AdminDateOverlap ==
    (Filtered /\ dash.view \in {"admin", "employee"})
    => \A k \in 1..Len(dash.requests) :
          LET r == dash.requests[k] IN
          /\ r \in Elements(dash.filteredRequests) => Overlaps(r, dash.filters)
          /\ OnlyDates => (r \in Elements(dash.filteredRequests) <=> Overlaps(r, dash.filters))

\* AdminRequestsPage keeps a request that starts before the window and
\* ends inside it, and drops one that ends before the window starts
C19_Witness ==
    /\ Filtered
    /\ dash.view = "admin"
    /\ OnlyDates
    /\ dash.filters.dateFrom = "2024-06-10"
    /\ dash.filters.dateTo = "2024-06-12"
    /\ \E r \in Elements(dash.filteredRequests) :
          r.startDate = "2024-06-05" /\ r.endDate = "2024-06-10"
    /\ \E r \in Elements(dash.requests) :
          r.endDate = "2024-06-05" /\ r \notin Elements(dash.filteredRequests)

(***************************************************************************)
(* C20  In the user dashboard a request that is listed lies inside the     *)
(* date window, and when only the window is set the listed requests are    *)
(* exactly those of the snapshot that lie inside it.                       *)
(***************************************************************************)
C20_UserDateContainment ==
    (Filtered /\ dash.view = "user")
    => \A k \in 1..Len(dash.requests) :
          LET r == dash.requests[k] IN
          /\ r \in Elements(dash.filteredRequests) => Contained(r, dash.filters)
          /\ OnlyDates => (r \in Elements(dash.filteredRequests) <=> Contained(r, dash.filters))

\* the user dashboard drops a request that starts before the window and
\* ends inside it, and keeps one that lies inside
C20_Witness ==
    /\ Filtered
    /\ dash.view = "user"
    /\ OnlyDates
    /\ dash.filters.dateFrom = "2024-06-10"
    /\ dash.filters.dateTo = "2024-06-12"
    /\ \E r \in Elements(dash.requests) :
          /\ r.startDate = "2024-06-05" /\ r.endDate = "2024-06-10"
          /\ r \notin Elements(dash.filteredRequests)
    /\ \E r \in Elements(dash.filteredRequests) : r.startDate = "2024-06-10"

\* the days from the day s to the day t, both counted
InclusiveDays(s, t) ==
    Cardinality({d \in ParseDate(s)..ParseDate(t) : TRUE})

(***************************************************************************)
(* C21  On every dashboard the days shown with a listed request are the    *)
(* days from its start date to its end date, both counted: 1 for a request *)
(* of a single day, 3 for one from the 10th to the 12th.                   *)
(***************************************************************************)
C21_DaysInclusive ==
    (dash.view # "none" /\ dash.painted)
    => /\ Len(dash.screen.days) = Len(dash.screen.list)
       /\ \A k \in 1..Len(dash.screen.list) :
             LET r == dash.screen.list[k] IN
             /\ dash.screen.days[k] = InclusiveDays(r.startDate, r.endDate)
             /\ r.startDate = r.endDate => dash.screen.days[k] = 1
             /\ (r.startDate = "2024-06-10" /\ r.endDate = "2024-06-12")
                => dash.screen.days[k] = 3

\* the user dashboard shows a request of one day and one of three
C21_Witness ==
    /\ dash.view = "user"
    /\ dash.painted
    /\ \E k \in 1..Len(dash.screen.list) : dash.screen.days[k] = 1
    /\ \E k \in 1..Len(dash.screen.list) : dash.screen.days[k] = 3

\* the filter effect has run and its result is on the screen
Settled == dash.view # "none" /\ dash.painted /\ dash.effect = "done"

\* the requests of arr with the status s, as a set
HavingStatus(arr, s) == {r \in Elements(arr) : r.status = s}

RECURSIVE SumOfInclusiveDays(_)
SumOfInclusiveDays(rows) ==
    IF rows = {} THEN 0
    ELSE LET r == CHOOSE x \in rows : TRUE IN
         InclusiveDays(r.startDate, r.endDate) + SumOfInclusiveDays(rows \ {r})

(***************************************************************************)
(* C22  Once the filter effect has run, the user and the administrative    *)
(* dashboard show the number of all requests of the snapshot and of its    *)
(* pending, accepted and denied ones, whatever the filters, and as         *)
(* approved days the sum of the days of the accepted requests of the       *)
(* filtered list.                                                          *)
(***************************************************************************)
C22_StatisticsScoping ==
    (Settled /\ dash.view \in {"user", "admin"})
    => /\ dash.screen.stats.totalRequests = Len(dash.requests)
       /\ dash.screen.stats.pendingCount = Cardinality(HavingStatus(dash.requests, "pending"))
       /\ dash.screen.stats.acceptedCount = Cardinality(HavingStatus(dash.requests, "accepted"))
       /\ dash.screen.stats.deniedCount = Cardinality(HavingStatus(dash.requests, "denied"))
       /\ dash.screen.stats.approvedDays =
             SumOfInclusiveDays(
                 {r \in HavingStatus(dash.requests, "accepted") :
                     /\ dash.filters.status \in {"all", r.status}
                     /\ IF dash.view = "user" THEN Contained(r, dash.filters)
                        ELSE Overlaps(r, dash.filters)})

\* a date filter that drops one of two accepted requests: both are counted,
\* the days of one are summed
C22_Witness ==
    /\ Settled
    /\ dash.view = "user"
    /\ dash.filters.dateTo = "2024-06-10"
    /\ dash.screen.stats.acceptedCount = 2
    /\ dash.screen.stats.pendingCount = 1
    /\ dash.screen.stats.approvedDays = 1

\* the label a request type is shown with
LabelOfType ==
    [work_from_home |-> "Work from Home", holiday |-> "Holiday",
     halfday |-> "Half Day", other |-> "Other"]

\* the pairs <<search, text>> of this model in which search, not empty,
\* occurs in text when upper and lower case are taken as equal
Occurrences ==
    {<<" ", "Half Day">>, <<" ", "Work from Home">>,
     <<"AN", "Ann">>, <<"AN", "ann@corp">>,
     <<"HOL", "Holiday">>, <<"tri", "Trip">>}

OccursIn(search, text) == search = "" \/ <<search, text>> \in Occurrences

\* the search rule of the dashboards
SearchMatches(view, r, search) ==
    \/ OccursIn(search, r.reason)
    \/ OccursIn(search, LabelOfType[r.type])
    \/ /\ view \in {"admin", "employee"}
       /\ OccursIn(search, r.name) \/ OccursIn(search, r.email)

\* only the search box is filled
OnlySearch ==
    /\ dash.filters.status = "all"
    /\ dash.filters.type = "all"
    /\ dash.filters.dateFrom = ""
    /\ dash.filters.dateTo = ""

(***************************************************************************)
(* C23  When only the search box is filled, a request of the snapshot is   *)
(* listed exactly when the search string occurs, upper and lower case      *)
(* taken as equal, in its reason or in the label of its type, or, on the   *)
(* administrative dashboards, in its name or email; an empty search string *)
(* lists every request.                                                    *)
(***************************************************************************)
C23_SearchRule ==
    (Filtered /\ OnlySearch)
    => \A k \in 1..Len(dash.requests) :
          LET r == dash.requests[k] IN
          r \in Elements(dash.filteredRequests)
              <=> SearchMatches(dash.view, r, dash.filters.search)

\* C23 on the user dashboard and AdminRequestsPage alone
SearchRuleOfTwo == dash.view \in {"user", "admin"} => C23_SearchRule

\* C23 for search strings that are not white space
SearchRuleOfWords == dash.filters.search # " " => C23_SearchRule

(***************************************************************************)
(* C24  Every click on Accept or Deny in an administrative dashboard was   *)
(* on a request that the session's snapshot showed as pending, and the     *)
(* status a dashboard sends to updateStatus is accepted or denied.         *)
(***************************************************************************)
C24_ActionsOnPendingOnly ==
    /\ dash.clicked.session # ""
       => /\ dash.clicked.shown = "pending"
          /\ dash.clicked.status \in {"accepted", "denied"}
    /\ last.op = "PATCH" => last.body.status \in {"accepted", "denied"}

\* a decision has been taken and a session that shows the request as
\* accepted offers no button for it
C24_Witness ==
    /\ dash.clicked.session # ""
    /\ \E s \in AdminSessions :
          /\ Len(dash.sessions[s].requests) = 1
          /\ dash.sessions[s].requests[1].status = "accepted"
          /\ ~ENABLED updateRequestStatus(s, 1, "denied", TRUE)

(***************************************************************************)
(* C26  In every step of two administrative sessions on the same store, a  *)
(* request whose stored status is accepted or denied keeps that status.    *)
(***************************************************************************)
C26_DecisionsFinal ==
    [][\A id \in DOMAIN store \cap DOMAIN store' :
          store[id].status \in {"accepted", "denied"}
          => store'[id].status = store[id].status]_vars

(***************************************************************************)
(* C25  Cancel Request is clicked only on a request the page shows as      *)
(* pending, and once the click on request X has been confirmed, X is no    *)
(* longer in the store and the page is about to fetch its list again.      *)
(***************************************************************************)
C25_CancelDeletes ==
    /\ dash.clicked.session # "" => dash.clicked.shown = "pending"
    /\ (last.op = "CANCEL" /\ dash.clicked.status = "confirmed")
       => /\ dash.clicked.id \notin DOMAIN store
          /\ dash.sessions[dash.clicked.session].fetching

\* the first half of C25 alone
CancelOfferedIfPending ==
    dash.clicked.session # "" => dash.clicked.shown = "pending"

\* every fetch the session a1 has issued has completed and none is due
FetchesCompleted ==
    /\ dash.sessions["a1"].issued >= 1
    /\ dash.sessions["a1"].fetches = {}
    /\ ~dash.sessions["a1"].fetching

(***************************************************************************)
(* C27  Once every fetch a dashboard has issued has completed, its         *)
(* snapshot is the result of the fetch it issued last: the response of an  *)
(* older fetch that arrives late does not replace it.                      *)
(***************************************************************************)
C27_SnapshotConverges ==
    FetchesCompleted => dash.sessions["a1"].shown = dash.sessions["a1"].issued

(***************************************************************************)
(* C28  A createRequest call attempts a notification only once its row has *)
(* been inserted; a call that is rejected or whose insert fails has        *)
(* attempted none when it answers, and a call that answers with success    *)
(* has attempted exactly one.                                              *)
(***************************************************************************)
C28_NotifyAfterInsert ==
    /\ inflight.mails > 0 => inflight.newRequest # <<>>
    /\ inflight.stage \in {"selected", "inserted"} => inflight.mails = 0
    /\ inflight.stage = "notified" => inflight.mails = 1
    /\ (last.op = "POST" /\ inflight.stage = "idle")
       => /\ inflight.userid = last.userid /\ inflight.body = last.body
          /\ Ok(last.resp) => (inflight.mails = 1 /\ last.mail \in {"sent", "failed"})
          /\ ~Ok(last.resp) => (inflight.mails = 0 /\ last.mail = "none")

\* the second created request of a run has been answered with 201 after
\* its one notification failed
C28_Witness ==
    /\ last.op = "POST"
    /\ inflight.stage = "idle"
    /\ Ok(last.resp)
    /\ last.mail = "failed"
    /\ inflight.mails = 1
    /\ nextId > 2

(***************************************************************************)
(* C29  On the same snapshot and the same date window, a request that ends *)
(* on or after the day it starts and that the user dashboard lists is      *)
(* listed by both administrative dashboards too.                           *)
(***************************************************************************)
C29_ContainedThenOverlapping ==
    (dash.view = "each" /\ dash.effect = "done")
    => \A r \in Elements(dash.filteredRequests["user"]) :
          OnOrBefore(r.startDate, r.endDate)
          => /\ r \in Elements(dash.filteredRequests["admin"])
             /\ r \in Elements(dash.filteredRequests["employee"])

\* a window with both ends set: the user dashboard lists one request, the
\* administrative dashboard that one and another that only overlaps
C29_Witness ==
    /\ dash.view = "each"
    /\ dash.effect = "done"
    /\ dash.filters.dateFrom = "2024-06-10"
    /\ dash.filters.dateTo = "2024-06-12"
    /\ \E r \in Elements(dash.filteredRequests["user"]) : r.endDate = "2024-06-12"
    /\ Len(dash.filteredRequests["admin"]) > Len(dash.filteredRequests["user"])

\* C29 without the condition on the request
ContainedThenOverlappingAlways ==
    (dash.view = "each" /\ dash.effect = "done")
    => \A r \in Elements(dash.filteredRequests["user"]) :
          r \in Elements(dash.filteredRequests["admin"])

\* the filter function of a dashboard
FilterOf(view, requests, filters) ==
    CASE view = "user" -> UserFilter(requests, filters)
      [] view = "admin" -> AdminFilter(requests, filters)
      [] view = "employee" -> EmployeeFilter(requests, filters)

(***************************************************************************)
(* C30  Whenever a dashboard has rendered, the list on the screen is the   *)
(* filter function applied to the current snapshot and the current filter  *)
(* configuration, and the days and statistics shown are those of that list.*)
(***************************************************************************)
C30_RenderedListIsFiltered ==
    (dash.view # "none" /\ dash.painted)
    => dash.screen = Screen(dash.view, dash.requests,
                            FilterOf(dash.view, dash.requests, dash.filters))

\* the same once the filter effect has run and its result has been rendered
RenderedListIsFilteredWhenSettled ==
    Settled => dash.screen = Screen(dash.view, dash.requests,
                                    FilterOf(dash.view, dash.requests, dash.filters))

\* a fetch completed under a status filter never shows a request of another
\* status on the user dashboard
FetchNeverShowsUnfiltered ==
    (dash.view = "user" /\ dash.painted /\ dash.filters.status = "pending")
    => \A r \in Elements(dash.screen.list) : r.status = "pending"
====
